---- MODULE Spec2Model ----
(***************************************************************************)
(* Geometry-proposal engine of perses (src/perses/rjmc/geometry.py):       *)
(* ProposalOrderTools (build order and torsion choice),                    *)
(* GeometrySystemGeneratorFast (the staged growth system) and              *)
(* FFAllAngleGeometryEngine (propose / logp_reverse, the torsion sampler   *)
(* and the coordinate transforms).                                         *)
(*                                                                         *)
(* Atoms are integer indices into a topology.  A topology is a record      *)
(*   [n, bonds, atomic_number, unique, mapped]                             *)
(* n atoms 0..n-1, bonds a set of two-element sets, unique the list of     *)
(* indices unique to this side and mapped the keys of the atom map.        *)
(* Log-probabilities are fixed-point integers, in units of 1/1000.         *)
(***************************************************************************)
EXTENDS Integers, Sequences, FiniteSets, TLC

\* Largest number of unique atoms on one side of a topology proposal.
MaxNew == 2

(***************************************************************************)
(* Generic helpers                                                         *)
(***************************************************************************)
Range(s) == {s[i] : i \in 1..Len(s)}

RECURSIVE SortedSeq(_)
SortedSeq(S) ==
  IF S = {} THEN <<>>
  ELSE LET m == CHOOSE x \in S : \A y \in S : x <= y
       IN <<m>> \o SortedSeq(S \ {m})

\* list.remove(x): drops the first occurrence of x
RECURSIVE Remove(_, _)
Remove(s, x) ==
  IF s = <<>> THEN <<>>
  ELSE IF Head(s) = x THEN Tail(s)
  ELSE <<Head(s)>> \o Remove(Tail(s), x)

\* [x for x in s if x in keep]
RECURSIVE Filter(_, _)
Filter(s, keep) ==
  IF s = <<>> THEN <<>>
  ELSE (IF Head(s) \in keep THEN <<Head(s)>> ELSE <<>>) \o Filter(Tail(s), keep)

\* np.log(1.0/n) in units of 1/1000
LogInvTable == <<0, -693, -1099, -1386, -1609, -1792, -1946, -2079>>
RECURSIVE LogInv(_)
LogInv(n) ==
  IF n <= Len(LogInvTable) THEN LogInvTable[n]
  ELSE LogInv(n \div 2) - 693

(***************************************************************************)
(* Topology proposals the engine is applied to.  The atoms common to both  *)
(* sides are a chain of three bonded atoms; a side adds u unique atoms     *)
(* with any bonds among themselves and to the common atoms.  On the new    *)
(* side the common atoms come first, on the old side they come last, so    *)
(* the atom map is not the identity when the old side has unique atoms.    *)
(***************************************************************************)
Pairs(U, A) == {{x, y} : x \in U, y \in A} \ {{x} : x \in U}

Topologies(coreBase, uniqBase, u) ==
  LET C == coreBase .. (coreBase + 2)
      U == uniqBase .. (uniqBase + u - 1)
      chain == {{coreBase, coreBase + 1}, {coreBase + 1, coreBase + 2}}
  IN { [n |-> 3 + u,
        bonds |-> chain \cup nb,
        atomic_number |-> [a \in 0 .. (2 + u) |-> IF a \in h THEN 1 ELSE 6],
        unique |-> SortedSeq(U),
        mapped |-> SortedSeq(C)] :
       nb \in {s \in SUBSET Pairs(U, C \cup U) : Cardinality(s) <= u + 1},
       h \in SUBSET U }

NewTopologies(u) == Topologies(0, 3, u)
OldTopologies(u) == Topologies(u, 0, u)

(***************************************************************************)
(* Topology proposals of the engine runs: the unique atoms grow as a chain *)
(* x1 - x2 - ... from the first or the middle common atom (or from no      *)
(* atom at all), the last one may close a ring onto the last common atom   *)
(* and may be a hydrogen.                                                  *)
(***************************************************************************)
GrowthTopologies(coreBase, uniqBase, u) ==
  LET C == coreBase .. (coreBase + 2)
      U == uniqBase .. (uniqBase + u - 1)
      chain == {{coreBase, coreBase + 1}, {coreBase + 1, coreBase + 2}}
      grown == {{x, x + 1} : x \in uniqBase .. (uniqBase + u - 2)}
  IN IF u = 0
     THEN Topologies(coreBase, uniqBase, 0)
     ELSE { [n |-> 3 + u,
             bonds |-> chain \cup grown \cup attach \cup ring,
             atomic_number |->
               [a \in 0 .. (2 + u) |-> IF a \in h THEN 1 ELSE 6],
             unique |-> SortedSeq(U),
             mapped |-> SortedSeq(C)] :
            attach \in {{}, {{uniqBase, coreBase}}, {{uniqBase, coreBase + 1}}},
            ring \in {{}, {{uniqBase + u - 1, coreBase + 2}}},
            h \in {{}, {uniqBase + u - 1}} }

\* Largest number of unique atoms, both sides together, in an engine run.
MaxGrow == 2

(***************************************************************************)
(* State                                                                   *)
(***************************************************************************)
VARIABLES
  new_topology,          \* TopologyProposal.new_topology / unique_new_atoms
  old_topology,          \* TopologyProposal.old_topology / unique_old_atoms
  new_to_old_atom_map,   \* TopologyProposal.new_to_old_atom_map
  \* ProposalOrderTools.determine_proposal_order
  opc,                   \* position in determine_proposal_order
  direction,             \* its direction argument
  partition,             \* "heavy" or "hydrogen": which add_atoms call runs
  new_heavy_atoms,       \* list of heavy atoms still to be added
  new_hydrogen_atoms,    \* list of hydrogens still to be added
  atoms_with_positions,  \* list of atoms holding a position
  eligible_atoms,        \* rest of the list the for loop iterates over
  atoms_torsions,        \* OrderedDict atom -> torsion, as a list of pairs
  logp_torsion_choice,   \* accumulated log-probability of the choices
  candidates,            \* len(eligible_torsions) of every choice made
  raised,                \* exception that ended the call, or "none"
  \* the systems of the topology proposal: lists of force terms
  new_system,            \* TopologyProposal.new_system
  old_system,            \* TopologyProposal.old_system
  \* FFAllAngleGeometryEngine
  epc,                   \* position in propose / logp_reverse
  calls,                 \* number of calls made to the engine
  nproposed,             \* self.nproposed
  propose_calls,         \* history: number of calls of propose()
  new_positions,         \* new_positions of _logp_propose
  logp_proposal,         \* logp_proposal of _logp_propose
  growth_parameter_value,\* growth_parameter_value of _logp_propose
  reference_system,      \* GeometrySystemGeneratorFast._reference_system
  growth_index,          \* growth index last applied to the growth system
  result,                \* what the last call returned or raised
  processed,             \* history: atoms handled by the growth loop of
                         \* this call, each with the terms computed for it
  first_reverse,         \* history: outcome of the first logp_reverse
  use_sterics,           \* self.use_sterics
  growth_system,         \* GeometrySystemGeneratorFast._growth_system
  growth_history,        \* history: growth indices applied to the growth
                         \* system since it was constructed
  \* _propose_torsion and the coordinate transforms called on their own
  fpc,                   \* position in the function called
  torsion_energies,      \* per bin: the energy of the scan is NaN or not
  logp_torsions,         \* logp_torsions of _propose_torsion
  phi_median_idx,        \* phi_median_idx of _propose_torsion
  torsion_return,        \* <<phi, logp>> returned by _propose_torsion
  phi_idx,               \* phi_idx of _torsion_logp
  torsion_logp,          \* torsion_logp returned by _torsion_logp
  reference_triple,      \* <<bond, angle, torsion>> positions
  internal_in,           \* <<r, theta, phi>> given to _internal_to_cartesian
  placed,                \* <<xyz, detJ>> returned by _internal_to_cartesian
  internal_out           \* <<internal_coords, detJ>> returned by
                         \* _cartesian_to_internal

tpvars == <<new_topology, old_topology, new_to_old_atom_map>>
sysvars == <<new_system, old_system>>
evars == <<epc, calls, nproposed, propose_calls, new_positions, logp_proposal,
           growth_parameter_value, reference_system, growth_index, result,
           processed, first_reverse, use_sterics, growth_system,
           growth_history>>
ovars == <<opc, direction, partition, new_heavy_atoms, new_hydrogen_atoms,
           atoms_with_positions, eligible_atoms, atoms_torsions,
           logp_torsion_choice, candidates, raised>>
fvars == <<fpc, torsion_energies, logp_torsions, phi_median_idx,
           torsion_return, phi_idx, torsion_logp, reference_triple,
           internal_in, placed, internal_out>>
vars == <<tpvars, ovars, sysvars, evars, fvars>>

(***************************************************************************)
(* ProposalOrderTools                                                      *)
(***************************************************************************)
Topology(dir) == IF dir = "forward" THEN new_topology ELSE old_topology

\* atom.bond_partners
BondPartners(top, a) == {b \in 0 .. (top.n - 1) : {a, b} \in top.bonds}

\* atom.bonds, each bond given by the atom at its other end
AtomBonds(top, a) == SortedSeq(BondPartners(top, a))

\* _atoms_eligible_for_proposal
AtomsEligibleForProposal(top, new_atoms, with_positions) ==
  Filter(new_atoms,
         {a \in Range(new_atoms) :
            Cardinality({b \in BondPartners(top, a) : b \in Range(with_positions)}) > 0})

\* the innermost loop without its test that atom4 holds a position
RECURSIVE Loop34AnyAtom4(_, _, _, _, _)
Loop34AnyAtom4(P, atom1, atom2, atom3, bonds34) ==
  IF bonds34 = <<>> THEN <<>>
  ELSE LET atom4 == Head(bonds34)
       IN (IF atom4 \in {atom1, atom2, atom3}
           THEN <<>>
           ELSE << <<atom1, atom2, atom3, atom4>> >>)
          \o Loop34AnyAtom4(P, atom1, atom2, atom3, Tail(bonds34))

\* the innermost loop without its test that atom4 is none of the first three
RECURSIVE Loop34AllowsBacktrack(_, _, _, _, _)
Loop34AllowsBacktrack(P, atom1, atom2, atom3, bonds34) ==
  IF bonds34 = <<>> THEN <<>>
  ELSE LET atom4 == Head(bonds34)
       IN (IF atom4 \notin P
           THEN <<>>
           ELSE << <<atom1, atom2, atom3, atom4>> >>)
          \o Loop34AllowsBacktrack(P, atom1, atom2, atom3, Tail(bonds34))

\* innermost loop of _get_topological_torsions (for bond34 in atom3.bonds)
RECURSIVE Loop34(_, _, _, _, _)
Loop34(P, atom1, atom2, atom3, bonds34) ==
  IF bonds34 = <<>> THEN <<>>
  ELSE LET atom4 == Head(bonds34)
       IN (IF (atom4 \notin P) \/ (atom4 \in {atom1, atom2, atom3})
           THEN <<>>
           ELSE << <<atom1, atom2, atom3, atom4>> >>)
          \o Loop34(P, atom1, atom2, atom3, Tail(bonds34))

\* middle loop (for bond23 in atom2.bonds)
RECURSIVE Loop23(_, _, _, _, _)
Loop23(top, P, atom1, atom2, bonds23) ==
  IF bonds23 = <<>> THEN <<>>
  ELSE LET atom3 == Head(bonds23)
       IN (IF (atom3 \notin P) \/ (atom3 \in {atom1, atom2})
           THEN <<>>
           ELSE Loop34(P, atom1, atom2, atom3, AtomBonds(top, atom3)))
          \o Loop23(top, P, atom1, atom2, Tail(bonds23))

\* outer loop (for bond12 in atom1.bonds)
RECURSIVE Loop12(_, _, _, _)
Loop12(top, P, atom1, bonds12) ==
  IF bonds12 = <<>> THEN <<>>
  ELSE LET atom2 == Head(bonds12)
       IN (IF atom2 \notin P
           THEN <<>>
           ELSE Loop23(top, P, atom1, atom2, AtomBonds(top, atom2)))
          \o Loop12(top, P, atom1, Tail(bonds12))

\* _get_topological_torsions: the list of (atom1, atom2, atom3, atom4)
GetTopologicalTorsions(top, with_positions, new_atom) ==
  Loop12(top, Range(with_positions), new_atom, AtomBonds(top, new_atom))

\* the list add_atoms is working on
NewAtoms == IF partition = "heavy" THEN new_heavy_atoms ELSE new_hydrogen_atoms

\* [atom for idx in unique_atoms if atomic_number == 1]
NewHydrogenAtoms(top) ==
  Filter(top.unique, {a \in Range(top.unique) : top.atomic_number[a] = 1})

\* the heavy-atom list with its filter dropped
AllUniqueAtoms(top) == top.unique

\* [atom for idx in unique_atoms if atomic_number != 1]
NewHeavyAtoms(top) ==
  Filter(top.unique, {a \in Range(top.unique) : top.atomic_number[a] # 1})

\* determine_proposal_order up to the first add_atoms call
StartOrder(dir) ==
  LET top == Topology(dir)
  IN /\ direction' = dir
     /\ atoms_with_positions' = top.mapped
     /\ new_hydrogen_atoms' = NewHydrogenAtoms(top)
     /\ new_heavy_atoms' = NewHeavyAtoms(top)
     /\ partition' = "heavy"
     /\ eligible_atoms' = <<>>
     /\ atoms_torsions' = <<>>
     /\ logp_torsion_choice' = 0
     /\ candidates' = <<>>
     /\ raised' = "none"
     /\ opc' = "while"

\* a caller invokes determine_proposal_order(direction)
DetermineProposalOrder ==
  /\ opc \in {"idle", "returned", "raised"}
  /\ \E dir \in {"forward", "reverse"} : StartOrder(dir)
  /\ UNCHANGED <<fvars, tpvars, sysvars, evars>>

\* the loop test without the check for an empty eligible list: the atoms
\* that cannot be reached are dropped and add_atoms returns
WhileTestSkipsUnreachable ==
  /\ opc = "while"
  /\ LET el == AtomsEligibleForProposal(Topology(direction), NewAtoms,
                                         atoms_with_positions)
     IN IF Len(el) > 0
        THEN /\ eligible_atoms' = el
             /\ opc' = "for"
             /\ UNCHANGED partition
        ELSE IF partition = "heavy"
             THEN /\ partition' = "hydrogen"
                  /\ UNCHANGED <<opc, eligible_atoms>>
             ELSE /\ opc' = "returned"
                  /\ UNCHANGED <<partition, eligible_atoms>>
  /\ UNCHANGED <<direction, new_heavy_atoms, new_hydrogen_atoms,
                 atoms_with_positions, atoms_torsions, logp_torsion_choice,
                 candidates, raised>>
  /\ UNCHANGED <<fvars, tpvars, sysvars, evars>>

\* while len(new_atoms) > 0: one evaluation of the loop test and, when it
\* holds, of the eligibility computation
WhileTest ==
  /\ opc = "while"
  /\ IF Len(NewAtoms) > 0
     THEN LET el == AtomsEligibleForProposal(Topology(direction), NewAtoms,
                                              atoms_with_positions)
          IN IF Len(el) = 0
             THEN /\ raised' = "Exception"
                  /\ opc' = "raised"
                  /\ UNCHANGED <<partition, eligible_atoms>>
             ELSE /\ eligible_atoms' = el
                  /\ opc' = "for"
                  /\ UNCHANGED <<partition, raised>>
     ELSE \* add_atoms returns; the hydrogens follow the heavy atoms
          IF partition = "heavy"
          THEN /\ partition' = "hydrogen"
               /\ UNCHANGED <<opc, eligible_atoms, raised>>
          ELSE /\ opc' = "returned"
               /\ UNCHANGED <<partition, eligible_atoms, raised>>
  /\ UNCHANGED <<direction, new_heavy_atoms, new_hydrogen_atoms,
                 atoms_with_positions, atoms_torsions, logp_torsion_choice,
                 candidates>>
  /\ UNCHANGED <<fvars, tpvars, sysvars, evars>>

\* the for-loop body without new_atoms.remove(atom)
PlaceAtomKeepsAtom(atom, eligible_torsions) ==
  \E torsion_idx \in 1 .. Len(eligible_torsions) :
    /\ atoms_torsions' =
         Append(atoms_torsions, <<atom, eligible_torsions[torsion_idx]>>)
    /\ logp_torsion_choice' =
         logp_torsion_choice + LogInv(Len(eligible_torsions))
    /\ candidates' = Append(candidates, Len(eligible_torsions))
    /\ UNCHANGED <<new_heavy_atoms, new_hydrogen_atoms>>
    /\ atoms_with_positions' = Append(atoms_with_positions, atom)
    /\ eligible_atoms' = Tail(eligible_atoms)
    /\ opc' = IF Tail(eligible_atoms) = <<>> THEN "while" ELSE "for"
    /\ UNCHANGED raised

\* the for-loop body recording the torsion from its far end
PlaceAtomTorsionReversed(atom, eligible_torsions) ==
  \E torsion_idx \in 1 .. Len(eligible_torsions) :
    /\ atoms_torsions' =
         Append(atoms_torsions,
                <<atom, <<eligible_torsions[torsion_idx][4],
                          eligible_torsions[torsion_idx][3],
                          eligible_torsions[torsion_idx][2],
                          eligible_torsions[torsion_idx][1]>> >>)
    /\ logp_torsion_choice' =
         logp_torsion_choice + LogInv(Len(eligible_torsions))
    /\ candidates' = Append(candidates, Len(eligible_torsions))
    /\ IF partition = "heavy"
       THEN /\ new_heavy_atoms' = Remove(new_heavy_atoms, atom)
            /\ UNCHANGED new_hydrogen_atoms
       ELSE /\ new_hydrogen_atoms' = Remove(new_hydrogen_atoms, atom)
            /\ UNCHANGED new_heavy_atoms
    /\ atoms_with_positions' = Append(atoms_with_positions, atom)
    /\ eligible_atoms' = Tail(eligible_atoms)
    /\ opc' = IF Tail(eligible_atoms) = <<>> THEN "while" ELSE "for"
    /\ UNCHANGED raised

\* the for-loop body taking the log-probability from the index drawn
PlaceAtomLogpOfIndex(atom, eligible_torsions) ==
  \E torsion_idx \in 1 .. Len(eligible_torsions) :
    /\ atoms_torsions' =
         Append(atoms_torsions, <<atom, eligible_torsions[torsion_idx]>>)
    /\ logp_torsion_choice' = logp_torsion_choice + LogInv(torsion_idx)
    /\ candidates' = Append(candidates, Len(eligible_torsions))
    /\ IF partition = "heavy"
       THEN /\ new_heavy_atoms' = Remove(new_heavy_atoms, atom)
            /\ UNCHANGED new_hydrogen_atoms
       ELSE /\ new_hydrogen_atoms' = Remove(new_hydrogen_atoms, atom)
            /\ UNCHANGED new_heavy_atoms
    /\ atoms_with_positions' = Append(atoms_with_positions, atom)
    /\ eligible_atoms' = Tail(eligible_atoms)
    /\ opc' = IF Tail(eligible_atoms) = <<>> THEN "while" ELSE "for"
    /\ UNCHANGED raised

\* body of the for loop once a torsion list is at hand: the random choice
\* of _choose_torsion (lines 1974-1976) and the bookkeeping of add_atoms
PlaceAtom(atom, eligible_torsions) ==
  \E torsion_idx \in 1 .. Len(eligible_torsions) :
    /\ atoms_torsions' =
         Append(atoms_torsions, <<atom, eligible_torsions[torsion_idx]>>)
    /\ logp_torsion_choice' =
         logp_torsion_choice + LogInv(Len(eligible_torsions))
    /\ candidates' = Append(candidates, Len(eligible_torsions))
    /\ IF partition = "heavy"
       THEN /\ new_heavy_atoms' = Remove(new_heavy_atoms, atom)
            /\ UNCHANGED new_hydrogen_atoms
       ELSE /\ new_hydrogen_atoms' = Remove(new_hydrogen_atoms, atom)
            /\ UNCHANGED new_heavy_atoms
    /\ atoms_with_positions' = Append(atoms_with_positions, atom)
    /\ eligible_atoms' = Tail(eligible_atoms)
    /\ opc' = IF Tail(eligible_atoms) = <<>> THEN "while" ELSE "for"
    /\ UNCHANGED raised

\* the for loop raising the generic exception when no torsion is found
ForAtomGenericException ==
  /\ opc = "for"
  /\ LET atom == Head(eligible_atoms)
         eligible_torsions ==
           GetTopologicalTorsions(Topology(direction), atoms_with_positions, atom)
     IN IF Len(eligible_torsions) = 0
        THEN /\ raised' = "Exception"
             /\ opc' = "raised"
             /\ UNCHANGED <<new_heavy_atoms, new_hydrogen_atoms,
                            atoms_with_positions, eligible_atoms,
                            atoms_torsions, logp_torsion_choice, candidates>>
        ELSE PlaceAtom(atom, eligible_torsions)
  /\ UNCHANGED <<direction, partition>>
  /\ UNCHANGED <<fvars, tpvars, sysvars, evars>>

\* the for loop taking the candidate torsions against the mapped atoms only
ForAtomAgainstMappedOnly ==
  /\ opc = "for"
  /\ LET atom == Head(eligible_atoms)
         eligible_torsions ==
           GetTopologicalTorsions(Topology(direction),
                                  Topology(direction).mapped, atom)
     IN IF Len(eligible_torsions) = 0
        THEN /\ raised' = "NoTorsionError"
             /\ opc' = "raised"
             /\ UNCHANGED <<new_heavy_atoms, new_hydrogen_atoms,
                            atoms_with_positions, eligible_atoms,
                            atoms_torsions, logp_torsion_choice, candidates>>
        ELSE PlaceAtom(atom, eligible_torsions)
  /\ UNCHANGED <<direction, partition>>
  /\ UNCHANGED <<fvars, tpvars, sysvars, evars>>

\* one pass of "for atom in eligible_atoms": _choose_torsion and bookkeeping
ForAtom ==
  /\ opc = "for"
  /\ LET atom == Head(eligible_atoms)
         eligible_torsions ==
           GetTopologicalTorsions(Topology(direction), atoms_with_positions, atom)
     IN IF Len(eligible_torsions) = 0
        THEN /\ raised' = "NoTorsionError"
             /\ opc' = "raised"
             /\ UNCHANGED <<new_heavy_atoms, new_hydrogen_atoms,
                            atoms_with_positions, eligible_atoms,
                            atoms_torsions, logp_torsion_choice, candidates>>
        ELSE PlaceAtom(atom, eligible_torsions)
  /\ UNCHANGED <<direction, partition>>
  /\ UNCHANGED <<fvars, tpvars, sysvars, evars>>

(***************************************************************************)
(* Systems: the force terms of a topology.  A system is a record           *)
(*   [bonds, angles, torsions, particles, exceptions, constraints]         *)
(* of lists of atom-index tuples, in the order the terms were added; a     *)
(* constraint is <<atom, atom, length>>.                                   *)
(***************************************************************************)
RECURSIVE SetToSeq(_)
SetToSeq(S) ==
  IF S = {} THEN <<>>
  ELSE LET x == CHOOSE y \in S : TRUE
       IN <<x>> \o SetToSeq(S \ {x})

Atoms(top) == 0 .. (top.n - 1)

\* the length a constraint fixes a bond to, in the units of Devs
ConstraintLength == 2

\* the unique atom of a topology with the highest index in its list
LastUnique(top) ==
  IF top.unique = <<>> THEN {} ELSE {top.unique[Len(top.unique)]}

\* the system a force field assigns to a topology: a harmonic bond per bond,
\* an angle per pair of adjacent bonds, a torsion per chain of three bonds, a
\* nonbonded particle per atom and an exception per bond.  bond_kind says how
\* the bonds of the last unique atom are parameterized (a harmonic term, a
\* constraint, or nothing), with_angles whether its angles have terms.
ForceFieldSystem(top, bond_kind, with_angles) ==
  LET special(b) == bond_kind # "harmonic" /\ b \cap LastUnique(top) # {}
      pairs == {<<a, b>> \in Atoms(top) \X Atoms(top) :
                  a < b /\ {a, b} \in top.bonds}
  IN [bonds |-> SetToSeq({p \in pairs : ~special({p[1], p[2]})}),
      constraints |->
        IF bond_kind = "constraint"
        THEN SetToSeq({<<p[1], p[2], ConstraintLength>> :
                         p \in {q \in pairs : special({q[1], q[2]})}})
        ELSE <<>>,
      angles |->
        SetToSeq({<<a, b, c>> \in Atoms(top) \X Atoms(top) \X Atoms(top) :
                    /\ a < c
                    /\ {a, b} \in top.bonds /\ {b, c} \in top.bonds
                    /\ with_angles \/ {a, b, c} \cap LastUnique(top) = {}}),
      torsions |->
        SetToSeq({t \in Atoms(top) \X Atoms(top) \X Atoms(top) \X Atoms(top) :
                    /\ t[1] < t[4]
                    /\ {t[1], t[2]} \in top.bonds
                    /\ {t[2], t[3]} \in top.bonds
                    /\ {t[3], t[4]} \in top.bonds
                    /\ t[1] # t[3] /\ t[2] # t[4]}),
      particles |-> SetToSeq({<<a>> : a \in Atoms(top)}),
      exceptions |-> SetToSeq(pairs)]

EmptySystem ==
  [bonds |-> <<>>, constraints |-> <<>>, angles |-> <<>>, torsions |-> <<>>,
   particles |-> <<>>, exceptions |-> <<>>]

\* atoms reachable from the atoms of S along the bonds of E
RECURSIVE Reachable(_, _)
Reachable(E, S) ==
  LET S2 == S \cup {y \in UNION E : \E x \in S : {x, y} \in E}
  IN IF S2 = S THEN S ELSE Reachable(E, S2)

\* bond {b, c} closes a ring of the topology
RingBond(top, b, c) ==
  /\ {b, c} \in top.bonds
  /\ c \in Reachable(top.bonds \ {{b, c}}, {b})

IsHeavy(top, a) == top.atomic_number[a] # 1

\* relevant_torsion_list: torsions of heavy atoms about a bond that is no
\* rotor (OEGetTorsions with OENotBond(OEIsRotor), _select_torsions_without_h)
RelevantTorsionList(top) ==
  SetToSeq({t \in Atoms(top) \X Atoms(top) \X Atoms(top) \X Atoms(top) :
              /\ t[1] < t[4]
              /\ {t[1], t[2]} \in top.bonds
              /\ {t[3], t[4]} \in top.bonds
              /\ t[1] # t[3] /\ t[2] # t[4]
              /\ RingBond(top, t[2], t[3])
              /\ \A k \in 1 .. 4 : IsHeavy(top, t[k])})

\* heavy_aromatics and, for each, the pairs of its bonded atoms
ExtraAngleList(top) ==
  SetToSeq({<<a, b, c>> \in Atoms(top) \X Atoms(top) \X Atoms(top) :
              /\ a < c
              /\ {a, b} \in top.bonds /\ {b, c} \in top.bonds
              /\ IsHeavy(top, b)
              /\ \E x \in Atoms(top) : RingBond(top, b, x)})

\* _determine_extra_torsions on a PeriodicTorsionForce: addTorsion per term
DetermineExtraTorsions(torsion_force, top, growth_indices) ==
  IF Len(growth_indices) = 0 THEN torsion_force
  ELSE torsion_force \o RelevantTorsionList(top)

\* _determine_extra_angles on a HarmonicAngleForce: addAngle per term
DetermineExtraAngles(angle_force, top, growth_indices) ==
  IF Len(growth_indices) = 0 THEN angle_force
  ELSE angle_force \o ExtraAngleList(top)

\* the forces handed to _determine_extra_*: reference_forces is built from
\* the reference_system argument, so the terms are added to the caller's
\* system
GeneratorAddsExtraTerms(system, top, growth_indices) ==
  [system EXCEPT
     !.angles = DetermineExtraAngles(system.angles, top, growth_indices),
     !.torsions = DetermineExtraTorsions(system.torsions, top, growth_indices)]

(***************************************************************************)
(* GeometrySystemGeneratorFast: the growth system holds, per term of the   *)
(* reference system, a record [atoms, k]; k is the term's coefficient (the *)
(* charge and epsilon of a particle, the charge product and epsilon of an  *)
(* exception), 1 for the reference value and 0 when scaled by 0.0.         *)
(***************************************************************************)
Forces == {"bonds", "angles", "torsions", "particles", "exceptions"}

\* list.index(x) + 1
IndexOf(list, x) == CHOOSE i \in 1 .. Len(list) : list[i] = x

Max(S) == CHOOSE x \in S : \A y \in S : y <= x

Min(S) == CHOOSE x \in S : \A y \in S : x <= y

\* the growth index of the first of the new atoms of the term to be placed
CalculateGrowthIdxOfFirst(particle_indices, growth_indices) ==
  LET new_atoms_in_force == Range(particle_indices) \cap Range(growth_indices)
  IN IF new_atoms_in_force = {} THEN 0
     ELSE Min({IndexOf(growth_indices, a) : a \in new_atoms_in_force})

\* the growth index counted from 0
CalculateGrowthIdxZeroBased(particle_indices, growth_indices) ==
  LET new_atoms_in_force == Range(particle_indices) \cap Range(growth_indices)
  IN IF new_atoms_in_force = {} THEN 0
     ELSE Max({IndexOf(growth_indices, a) - 1 : a \in new_atoms_in_force})

\* _calculate_growth_idx
CalculateGrowthIdx(particle_indices, growth_indices) ==
  LET new_atoms_in_force == Range(particle_indices) \cap Range(growth_indices)
  IN IF new_atoms_in_force = {} THEN 0
     ELSE Max({IndexOf(growth_indices, a) : a \in new_atoms_in_force})

\* self._reference_system: a copy of the system with the forces to keep
MakeReferenceSystem(system, sterics) ==
  IF sterics THEN system
  ELSE [system EXCEPT !.particles = <<>>, !.exceptions = <<>>]

\* no growth system constructed yet
EmptyGrowthSystem == [f \in Forces |-> <<>>]

\* the parameters of a term of the reference system
ReferenceParameters(term) == [atoms |-> term, k |-> 1]

\* self._growth_system = copy.deepcopy(self._reference_system)
CopyOfReference(reference) ==
  [f \in Forces |->
     [i \in 1 .. Len(reference[f]) |-> ReferenceParameters(reference[f][i])]]

\* the update taking the parameters to scale from the growth force
SetGrowthParameterIndexFromGrowthForce(growth, reference, growth_indices, g) ==
  [f \in Forces |->
     [i \in 1 .. Len(reference[f]) |->
        LET parameters == growth[f][i]
            this_growth_index ==
              CalculateGrowthIdx(parameters.atoms, growth_indices)
        IN IF g < this_growth_index
           THEN [parameters EXCEPT !.k = 0]
           ELSE parameters]]

\* set_growth_parameter_index: every term is set from the parameters of the
\* reference force, scaled by 0.0 when growth_index < this_growth_index
SetGrowthParameterIndex(growth, reference, growth_indices, g) ==
  [f \in Forces |->
     [i \in 1 .. Len(reference[f]) |->
        LET parameters == ReferenceParameters(reference[f][i])
            this_growth_index ==
              CalculateGrowthIdx(parameters.atoms, growth_indices)
        IN IF g < this_growth_index
           THEN [parameters EXCEPT !.k = 0]
           ELSE parameters]]

(***************************************************************************)
(* Coordinates and the per-atom log-probability terms.  A position is an   *)
(* integer token.  Bond lengths and angles are counted in standard         *)
(* deviations from their equilibrium value, torsions in bins.              *)
(***************************************************************************)
OldCoordinates == [j \in Atoms(old_topology) |-> 100 + j]
NewCoordinates == [i \in Atoms(new_topology) |-> 200 + i]

\* np.random.random for a slot without a known position
RandomPosition == 0

\* the position internal_to_cartesian computes for an atom
PlacedPosition(atom) == 300 + atom

\* deviations np.random.randn can produce, and bins np.random.choice can draw
Devs == {0, 1}
PhiBins == {0, 1}

Abs(x) == IF x < 0 THEN -x ELSE x

\* _cartesian_to_internal on position tokens: r from the atom and its bond
\* atom, theta from these and the angle atom, phi from all four
CartesianToInternal(atom_position, bond_position, angle_position, torsion_position) ==
  [r |-> (Abs(atom_position - bond_position) \div 2) % 2,
   theta |-> (Abs(atom_position - bond_position)
                + Abs(bond_position - angle_position)) % 2,
   phi |-> (Abs(atom_position - torsion_position)
                + Abs(bond_position - angle_position)) % 2]

\* _bond_logq with r - r0 = dr * sigma_r
BondLogq(dr) == -500 * dr * dr

\* logZ_r = log(sqrt(2 pi) sigma_r), sigma_r = 0.15 angstrom
LogZr == -978

\* _angle_logq with theta - theta0 = dtheta * sigma_theta
AngleLogq(dtheta) == -500 * dtheta * dtheta

\* logZ_theta = log(sqrt(2 pi) sigma_theta), sigma_theta = 0.1 radian
LogZtheta == -1384

\* logp_torsions[bin] - log(2 pi / n_divisions), for a probability mass of
\* 3/4 in bin 0 and 1/4 in bin 1
TorsionLogp(bin) == (IF bin = 0 THEN -288 ELSE -1386) + 4048

\* np.log(detJ), detJ = |r^2 sin(theta)|
LogDetJ(dr, dtheta) == -3857 + 191 * dr - 42 * dtheta

(***************************************************************************)
(* FFAllAngleGeometryEngine                                                *)
(***************************************************************************)
MaxCalls == 2

\* the copy taking the old position at the new index
CopyPositionsSameIndex(with_positions, current_positions) ==
  [i \in Atoms(new_topology) |->
     IF i \in Range(with_positions)
     THEN current_positions[i]
     ELSE RandomPosition]

\* _copy_positions
CopyPositions(with_positions, current_positions) ==
  [i \in Atoms(new_topology) |->
     IF i \in Range(with_positions)
     THEN current_positions[new_to_old_atom_map[i]]
     ELSE RandomPosition]

\* keys of new_to_old_atom_map
MapKeys == SortedSeq(DOMAIN new_to_old_atom_map)

ClearCall ==
  /\ new_positions' = <<>>
  /\ logp_proposal' = 0
  /\ growth_parameter_value' = 0
  /\ reference_system' = EmptySystem
  /\ growth_index' = 0
  /\ processed' = <<>>
  /\ growth_system' = EmptyGrowthSystem
  /\ growth_history' = <<>>

\* propose when the new topology has no unique atoms
ProposeCopy ==
  /\ epc = "idle"
  /\ calls < MaxCalls
  /\ new_topology.unique = <<>>
  /\ result' = [kind |-> "propose", status |-> "returned", logp |-> 0,
                positions |-> CopyPositions(MapKeys, OldCoordinates)]
  /\ calls' = calls + 1
  /\ ClearCall
  /\ propose_calls' = propose_calls + 1
  /\ UNCHANGED <<epc, nproposed, first_reverse, use_sterics>>
  /\ UNCHANGED <<fvars, tpvars, sysvars, ovars>>

\* propose with unique new atoms: _logp_propose(direction='forward') up to
\* the call of determine_proposal_order
ProposeGrow ==
  /\ epc = "idle"
  /\ calls < MaxCalls
  /\ new_topology.unique # <<>>
  /\ StartOrder("forward")
  /\ epc' = "order"
  /\ calls' = calls + 1
  /\ result' = [kind |-> "propose", status |-> "running", logp |-> 0,
                positions |-> <<>>]
  /\ ClearCall
  /\ propose_calls' = propose_calls + 1
  /\ UNCHANGED <<nproposed, first_reverse, use_sterics>>
  /\ UNCHANGED <<fvars, tpvars, sysvars>>

\* logp_reverse without its early return
LogpReverseNoEarlyReturn ==
  /\ epc = "idle"
  /\ calls < MaxCalls
  /\ old_topology.unique = <<>>
  /\ StartOrder("reverse")
  /\ epc' = "order"
  /\ calls' = calls + 1
  /\ result' = [kind |-> "logp_reverse", status |-> "running", logp |-> 0,
                positions |-> <<>>]
  /\ ClearCall
  /\ UNCHANGED <<nproposed, propose_calls, first_reverse, use_sterics>>
  /\ UNCHANGED <<fvars, tpvars, sysvars>>

\* logp_reverse when the old topology has no unique atoms
LogpReverseZero ==
  /\ epc = "idle"
  /\ calls < MaxCalls
  /\ old_topology.unique = <<>>
  /\ result' = [kind |-> "logp_reverse", status |-> "returned", logp |-> 0,
                positions |-> <<>>]
  /\ calls' = calls + 1
  /\ ClearCall
  /\ UNCHANGED <<epc, nproposed, propose_calls, first_reverse, use_sterics>>
  /\ UNCHANGED <<fvars, tpvars, sysvars, ovars>>

\* logp_reverse with unique old atoms: _logp_propose(direction='reverse')
LogpReverseGrow ==
  /\ epc = "idle"
  /\ calls < MaxCalls
  /\ old_topology.unique # <<>>
  /\ StartOrder("reverse")
  /\ epc' = "order"
  /\ calls' = calls + 1
  /\ result' = [kind |-> "logp_reverse", status |-> "running", logp |-> 0,
                positions |-> <<>>]
  /\ ClearCall
  /\ UNCHANGED <<nproposed, propose_calls, first_reverse, use_sterics>>
  /\ UNCHANGED <<fvars, tpvars, sysvars>>

\* an exception of determine_proposal_order leaves the call
OrderRaised ==
  /\ epc = "order"
  /\ opc = "raised"
  /\ epc' = "idle"
  /\ result' = [result EXCEPT !.status = raised]
  /\ UNCHANGED <<calls, nproposed, propose_calls, new_positions, logp_proposal,
                 growth_parameter_value, reference_system, growth_index,
                 processed, first_reverse, use_sterics, growth_system,
                 growth_history>>
  /\ UNCHANGED <<fvars, tpvars, sysvars, ovars>>

\* the build order as _logp_propose sees it
atom_proposal_order == atoms_torsions

GrowthIndices == [i \in 1 .. Len(atom_proposal_order) |-> atom_proposal_order[i][1]]

\* the structure the atoms of the build order belong to: load_topology of
\* the system as it is when the call begins, which is the system the
\* generator copies before any auxiliary term is added
Structure == reference_system

\* _get_relevant_bond: the bond of the two atoms when a harmonic term gave it
\* a type, None otherwise
GetRelevantBond(atom1, atom2) ==
  IF \E i \in 1 .. Len(Structure.bonds) :
       Range(Structure.bonds[i]) = {atom1, atom2}
  THEN "bond" ELSE "None"

\* _get_bond_constraint: the length of the last constraint on the two atoms
\* as a one-element list, the empty list for None
GetBondConstraint(atom1, atom2, system) ==
  LET hits == {i \in 1 .. Len(system.constraints) :
                 {system.constraints[i][1], system.constraints[i][2]}
                   = {atom1, atom2}}
  IN IF hits = {} THEN <<>> ELSE <<system.constraints[Max(hits)][3]>>

\* the angle looked up among the angles of the two reference atoms only
GetRelevantAngleOfReferences(atom1, atom2, atom3) ==
  IF \E i \in 1 .. Len(Structure.angles) :
       {atom2, atom3} \subseteq Range(Structure.angles[i])
  THEN "angle" ELSE "None"

\* _get_relevant_angle: an angle term the three atoms share, None when the
\* method raises
GetRelevantAngle(atom1, atom2, atom3) ==
  IF \E i \in 1 .. Len(Structure.angles) :
       Range(Structure.angles[i]) = {atom1, atom2, atom3}
  THEN "angle" ELSE "None"

\* the outcomes of FFAllAngleGeometryEngine._oemol_from_residue
OemolOutcomes == {"oemol", "raises"}

\* _logp_propose from the return of determine_proposal_order to the main
\* loop: positions, GeometrySystemGeneratorFast, context, logp_proposal
BuildGrowthSystem ==
  /\ epc = "order"
  /\ opc = "returned"
  /\ \E oemol \in OemolOutcomes :
       LET system == IF direction = "forward" THEN new_system ELSE old_system
           reference == MakeReferenceSystem(system, use_sterics)
           zeroed == SetGrowthParameterIndex(CopyOfReference(reference),
                                             reference, GrowthIndices, 0)
           N == Len(atom_proposal_order)
       IN /\ new_positions' =
               IF direction = "forward"
               THEN CopyPositions(MapKeys, OldCoordinates)
               ELSE NewCoordinates
          /\ reference_system' = reference
          /\ IF oemol = "raises"
             THEN \* the except clause prints; omega(oemol) then reads the
                  \* unassigned local
                  /\ growth_system' = zeroed
                  /\ growth_history' = <<0>>
                  /\ growth_index' = 0
                  /\ epc' = "idle"
                  /\ result' = [result EXCEPT !.status = "UnboundLocalError"]
                  /\ UNCHANGED <<sysvars, logp_proposal, growth_parameter_value>>
             ELSE /\ IF direction = "forward"
                     THEN /\ new_system' = GeneratorAddsExtraTerms(
                                             new_system, new_topology, GrowthIndices)
                          /\ UNCHANGED old_system
                     ELSE /\ old_system' = GeneratorAddsExtraTerms(
                                             old_system, old_topology, GrowthIndices)
                          /\ UNCHANGED new_system
                  /\ logp_proposal' = logp_torsion_choice
                  /\ growth_system' =
                       SetGrowthParameterIndex(zeroed, reference, GrowthIndices, N + 1)
                  /\ growth_history' = <<0, N + 1>>
                  /\ growth_index' = N + 1
                  /\ growth_parameter_value' = 1
                  /\ epc' = "grow"
                  /\ UNCHANGED result
  /\ UNCHANGED <<calls, nproposed, propose_calls, processed, first_reverse, use_sterics>>
  /\ UNCHANGED <<fvars, tpvars, ovars>>

\* the store with the index one too low
StorePositionBelow(positions, atom, xyz) ==
  [positions EXCEPT ![atom - 1] = xyz]

\* new_positions[atom.idx] = xyz
StorePosition(positions, atom, xyz) ==
  [positions EXCEPT ![atom] = xyz]

\* the accumulation without the Jacobian term
AccumulateNoJacobian(logp, logp_r, logp_theta, logp_phi, log_detJ) ==
  logp + logp_r + logp_theta + logp_phi

\* logp_proposal += logp_r + logp_theta + logp_phi + np.log(detJ)
Accumulate(logp, logp_r, logp_theta, logp_phi, log_detJ) ==
  logp + logp_r + logp_theta + logp_phi + log_detJ

\* the constrained bond scored as a harmonic bond at its equilibrium length
ConstrainedBondScored(constraint) ==
  [r |-> constraint[1], logp_r |-> BondLogq(0) - LogZr]

\* r and logp_r of an atom whose bond has no harmonic term, in propose
ConstrainedBond(constraint) == [r |-> constraint[1], logp_r |-> 0]

\* the growth index of the atom after the one the loop handles
GrowthStageAhead(value, N) == value + 1

\* the growth system left as it was set before the loop
GrowthStageBeforeLoop(value, N) == N + 1

\* the growth index the loop applies before it handles an atom
GrowthStage(value, N) == value

\* one pass of the main loop of _logp_propose
GrowAtom ==
  /\ epc = "grow"
  /\ growth_parameter_value <= Len(atom_proposal_order)
  /\ LET g == GrowthStage(growth_parameter_value, Len(atom_proposal_order))
     IN /\ growth_system' =
             SetGrowthParameterIndex(growth_system, reference_system,
                                     GrowthIndices, g)
        /\ growth_index' = g
        /\ growth_history' = Append(growth_history, g)
  /\ LET atom == atom_proposal_order[growth_parameter_value][1]
         torsion == atom_proposal_order[growth_parameter_value][2]
         bond_atom == torsion[2]
         angle_atom == torsion[3]
         torsion_atom == torsion[4]
         bond == GetRelevantBond(atom, bond_atom)
         constraint == GetBondConstraint(atom, bond_atom, new_system)
         angle == GetRelevantAngle(atom, bond_atom, angle_atom)
         raises ==
           IF atom # torsion[1] THEN "Exception"
           ELSE IF bond = "None" /\ direction = "forward" /\ constraint = <<>>
                THEN "ValueError"
           ELSE IF angle = "None" THEN "Exception"
           ELSE "none"
     IN IF raises # "none"
        THEN /\ epc' = "idle"
             /\ result' = [result EXCEPT !.status = raises]
             /\ UNCHANGED <<new_positions, logp_proposal,
                            growth_parameter_value, processed>>
        ELSE \E dr \in Devs, dtheta \in Devs, bin \in PhiBins :
             LET measured == CartesianToInternal(OldCoordinates[atom],
                                                 OldCoordinates[bond_atom],
                                                 OldCoordinates[angle_atom],
                                                 OldCoordinates[torsion_atom])
                 bond_term ==
                   IF bond # "None"
                   THEN LET r == IF direction = "forward" THEN dr ELSE measured.r
                        IN [r |-> r, logp_r |-> BondLogq(r) - LogZr]
                   ELSE IF direction = "forward"
                        THEN ConstrainedBond(constraint)
                        ELSE [r |-> measured.r, logp_r |-> 0]
                 r == bond_term.r
                 logp_r == bond_term.logp_r
                 theta == IF direction = "forward" THEN dtheta ELSE measured.theta
                 logp_theta == AngleLogq(theta) - LogZtheta
                 phi == IF direction = "forward" THEN bin ELSE measured.phi
                 logp_phi == TorsionLogp(phi)
                 log_detJ == LogDetJ(r, theta)
             IN /\ new_positions' =
                     IF direction = "forward"
                     THEN StorePosition(new_positions, atom, PlacedPosition(atom))
                     ELSE new_positions
                /\ logp_proposal' =
                     Accumulate(logp_proposal, logp_r, logp_theta, logp_phi, log_detJ)
                /\ processed' =
                     Append(processed,
                            [atom |-> atom, bond_atom |-> bond_atom,
                             angle_atom |-> angle_atom, r |-> r,
                             logp_r |-> logp_r,
                             logp_theta |-> logp_theta, logp_phi |-> logp_phi,
                             log_detJ |-> log_detJ,
                             growth |-> growth_index'])
                /\ growth_parameter_value' = growth_parameter_value + 1
                /\ UNCHANGED <<epc, result>>
  /\ UNCHANGED <<calls, nproposed, propose_calls, reference_system, first_reverse, use_sterics>>
  /\ UNCHANGED <<fvars, tpvars, sysvars, ovars>>

\* the loop is exhausted: _logp_propose returns to propose or logp_reverse
FinishCall ==
  /\ epc = "grow"
  /\ growth_parameter_value > Len(atom_proposal_order)
  /\ epc' = "idle"
  /\ IF direction = "forward"
     THEN /\ nproposed' = nproposed + 1
          /\ result' = [kind |-> "propose", status |-> "returned",
                        logp |-> logp_proposal, positions |-> new_positions]
          /\ UNCHANGED first_reverse
     ELSE /\ result' = [kind |-> "logp_reverse", status |-> "returned",
                        logp |-> logp_proposal, positions |-> <<>>]
          /\ first_reverse' =
               IF first_reverse = {}
               THEN {[order |-> GrowthIndices,
                      logp_choice |-> logp_torsion_choice,
                      logp |-> logp_proposal]}
               ELSE first_reverse
          /\ UNCHANGED nproposed
  /\ UNCHANGED <<calls, propose_calls, new_positions, logp_proposal,
                 growth_parameter_value, reference_system, growth_index,
                 processed, use_sterics, growth_system, growth_history>>
  /\ UNCHANGED <<fvars, tpvars, sysvars, ovars>>

(***************************************************************************)
(* GeometrySystemGeneratorFast used on its own                             *)
(***************************************************************************)
MaxSets == 2

\* the build order a generator is constructed for
ObtainBuildOrder ==
  /\ opc = "idle"
  /\ epc = "idle"
  /\ \E dir \in {"forward", "reverse"} : StartOrder(dir)
  /\ UNCHANGED <<fvars, tpvars, sysvars, evars>>

\* GeometrySystemGeneratorFast.__init__ on the system of the direction
ConstructGenerator ==
  /\ epc = "idle"
  /\ opc = "returned"
  /\ growth_history = <<>>
  /\ \E oemol \in OemolOutcomes :
       LET system == IF direction = "forward" THEN new_system ELSE old_system
           reference == MakeReferenceSystem(system, use_sterics)
       IN /\ reference_system' = reference
          /\ growth_system' =
               SetGrowthParameterIndex(CopyOfReference(reference), reference,
                                       GrowthIndices, 0)
          /\ growth_history' = <<0>>
          /\ growth_index' = 0
          /\ IF Len(GrowthIndices) > 0 /\ oemol = "raises"
             THEN /\ result' = [result EXCEPT !.status = "UnboundLocalError"]
                  /\ UNCHANGED <<epc, sysvars>>
             ELSE /\ epc' = "generator"
                  /\ IF direction = "forward"
                     THEN /\ new_system' = GeneratorAddsExtraTerms(
                                             new_system, new_topology, GrowthIndices)
                          /\ UNCHANGED old_system
                     ELSE /\ old_system' = GeneratorAddsExtraTerms(
                                             old_system, old_topology, GrowthIndices)
                          /\ UNCHANGED new_system
                  /\ UNCHANGED result
  /\ UNCHANGED <<calls, nproposed, propose_calls, new_positions, logp_proposal,
                 growth_parameter_value, processed, first_reverse, use_sterics>>
  /\ UNCHANGED <<fvars, tpvars, ovars>>

\* a call of set_growth_parameter_index(growth_index)
SetGrowthParameterIndexCall ==
  /\ epc = "generator"
  /\ Len(growth_history) <= MaxSets
  /\ \E g \in 0 .. (Len(GrowthIndices) + 1) :
       /\ growth_system' =
            SetGrowthParameterIndex(growth_system, reference_system,
                                    GrowthIndices, g)
       /\ growth_index' = g
       /\ growth_history' = Append(growth_history, g)
  /\ UNCHANGED <<epc, calls, nproposed, propose_calls, new_positions, logp_proposal,
                 growth_parameter_value, reference_system, result, processed,
                 first_reverse, use_sterics>>
  /\ UNCHANGED <<fvars, tpvars, sysvars, ovars>>

(***************************************************************************)
(* _propose_torsion called on its own.  Angles are counted in quarters of  *)
(* a division of the scan, so that pi is 2 * n_divisions.                  *)
(***************************************************************************)
NDivisions == 4

Pi(n_divisions) == 2 * n_divisions

\* division = 2 pi / n_divisions
Division == 4

\* phis = np.arange(-np.pi, +np.pi, (2.0*np.pi)/n_divisions)
TorsionScanPhis(n_divisions) ==
  [i \in 1 .. n_divisions |-> -Pi(n_divisions) + Division * (i - 1)]

\* logq[np.isnan(logq)] = -np.inf
NegInf == -1000000

\* np.log(2 pi)
LogTwoPi == 1838

\* the mass function with the NaN entries left in: a NaN bin weighs as much
\* as any other
TorsionLogProbabilityMassFunctionKeepsNan(energies) ==
  IF \A i \in 1 .. Len(energies) : energies[i] = "nan" THEN <<>>
  ELSE [i \in 1 .. Len(energies) |-> LogInv(Len(energies))]

\* _torsion_log_probability_mass_function for a scan whose energies are NaN
\* in some bins and equal in the others; the empty list when it raises
TorsionLogProbabilityMassFunction(energies) ==
  LET finite == {i \in 1 .. Len(energies) : energies[i] # "nan"}
  IN IF finite = {} THEN <<>>
     ELSE [i \in 1 .. Len(energies) |->
             IF i \in finite THEN LogInv(Cardinality(finite)) ELSE NegInf]

\* the values np.random.uniform(low, high) can return: low <= x < high
Uniform(low, high) == low .. (high - 1)

\* _propose_torsion
ProposeTorsion ==
  /\ fpc = "idle"
  /\ torsion_energies # <<>>
  /\ LET n_divisions == Len(torsion_energies)
         pmf == TorsionLogProbabilityMassFunction(torsion_energies)
         phis == TorsionScanPhis(n_divisions)
     IN IF pmf = <<>>
        THEN /\ fpc' = "raised"
             /\ UNCHANGED <<logp_torsions, phi_median_idx, torsion_return>>
        ELSE \E idx \in {i \in 1 .. n_divisions : pmf[i] # NegInf} :
               LET phi_min == phis[idx] - (Division \div 2)
                   phi_max == phis[idx] + (Division \div 2)
               IN \E phi \in Uniform(phi_min, phi_max) :
                    /\ logp_torsions' = pmf
                    /\ phi_median_idx' = idx
                    /\ torsion_return' =
                         <<phi, pmf[idx] - (LogTwoPi + LogInv(n_divisions))>>
                    /\ fpc' = "returned"
  /\ UNCHANGED <<torsion_energies, phi_idx, torsion_logp, reference_triple,
                 internal_in, placed, internal_out>>
  /\ UNCHANGED <<tpvars, ovars, sysvars, evars>>

\* the torsion angle _cartesian_to_internal measures for an atom placed at
\* phi: the same angle taken into [-pi, pi)
MeasuredTorsion(phi, n_divisions) ==
  IF phi < -Pi(n_divisions) THEN phi + 2 * Pi(n_divisions)
  ELSE IF phi >= Pi(n_divisions) THEN phi - 2 * Pi(n_divisions)
  ELSE phi

\* np.argmin(a): the first index of the least element
ArgMin(a) ==
  CHOOSE i \in 1 .. Len(a) :
    /\ \A j \in 1 .. Len(a) : a[i] <= a[j]
    /\ \A j \in 1 .. (i - 1) : a[i] < a[j]

\* _torsion_logp for the geometry _propose_torsion has just proposed: the
\* scan is the same, phi is the torsion angle measured from the positions
TorsionLogpOfProposed ==
  /\ fpc = "returned"
  /\ LET n_divisions == Len(torsion_energies)
         pmf == TorsionLogProbabilityMassFunction(torsion_energies)
         phis == TorsionScanPhis(n_divisions)
         phi == MeasuredTorsion(torsion_return[1], n_divisions)
         idx == ArgMin([i \in 1 .. n_divisions |-> Abs(phi - phis[i])])
     IN /\ phi_idx' = idx
        /\ torsion_logp' = pmf[idx] - (LogTwoPi + LogInv(n_divisions))
  /\ fpc' = "scored"
  /\ UNCHANGED <<torsion_energies, logp_torsions, phi_median_idx,
                 torsion_return, reference_triple, internal_in, placed,
                 internal_out>>
  /\ UNCHANGED <<tpvars, ovars, sysvars, evars>>

(***************************************************************************)
(* The coordinate transforms called on their own.  Positions are points of *)
(* the integer lattice; an angle is the pair <<cos, sin>> scaled by 5, a   *)
(* point of the circle c^2 + s^2 = 25; lengths are multiples of 25 and a   *)
(* Jacobian r^2 sin(theta) carries the scale of its sine.  The reference   *)
(* frames are the ones whose axes are lattice axes.                        *)
(***************************************************************************)
MaxR == 2

Circle == {a \in (-5 .. 5) \X (-5 .. 5) : a[1] * a[1] + a[2] * a[2] = 25}

Add(u, v) == <<u[1] + v[1], u[2] + v[2], u[3] + v[3]>>
Sub(u, v) == <<u[1] - v[1], u[2] - v[2], u[3] - v[3]>>
Scale(k, u) == <<k * u[1], k * u[2], k * u[3]>>
Dot(u, v) == u[1] * v[1] + u[2] * v[2] + u[3] * v[3]

Cross(u, v) ==
  <<u[2] * v[3] - u[3] * v[2],
    u[3] * v[1] - u[1] * v[3],
    u[1] * v[2] - u[2] * v[1]>>

Sign(x) == IF x > 0 THEN 1 ELSE IF x < 0 THEN -1 ELSE 0

\* u / |u| for a vector along a lattice axis
Unit(u) == <<Sign(u[1]), Sign(u[2]), Sign(u[3])>>

ISqrt(n) == CHOOSE k \in 0 .. (25 * (MaxR + 1)) : k * k = n

\* the orthonormal frame of a reference triple: along bond -> angle, along
\* the part of angle -> torsion normal to it, and their cross product
LocalFrame(bond, angle, torsion) ==
  LET e1 == Unit(Sub(angle, bond))
      w == Sub(torsion, angle)
      e2 == Unit(Sub(w, Scale(Dot(w, e1), e1)))
  IN <<e1, e2, Cross(e1, e2)>>

\* coordinate_numba.internal_to_cartesian
NumbaInternalToCartesian(bond, angle, torsion, internal) ==
  LET e == LocalFrame(bond, angle, torsion)
      r == internal[1]
      theta == internal[2]
      phi == internal[3]
  IN Add(bond,
         Add(Scale((r * theta[1]) \div 5, e[1]),
             Add(Scale((r * theta[2] * phi[1]) \div 25, e[2]),
                 Scale((r * theta[2] * phi[2]) \div 25, e[3]))))

\* coordinate_numba.cartesian_to_internal
NumbaCartesianToInternal(atom, bond, angle, torsion) ==
  LET e == LocalFrame(bond, angle, torsion)
      u == Sub(atom, bond)
      r == ISqrt(Dot(u, u))
      cos_theta == (5 * Dot(u, e[1])) \div r
      sin_theta == ISqrt(25 - cos_theta * cos_theta)
  IN <<r, <<cos_theta, sin_theta>>,
       <<(25 * Dot(u, e[2])) \div (r * sin_theta),
         (25 * Dot(u, e[3])) \div (r * sin_theta)>>>>

\* the Jacobian without the square of r
DetJOfInternalUnsquared(r, theta) == Abs(r * theta[2])

\* np.abs(r**2*np.sin(theta)) of _internal_to_cartesian
DetJOfInternal(r, theta) == Abs(r * r * theta[2])

\* np.abs(internal_coords[0]**2*np.sin(internal_coords[1])) of
\* _cartesian_to_internal
DetJOfMeasured(internal_coords) ==
  Abs(internal_coords[1] * internal_coords[1] * internal_coords[2][2])

\* _internal_to_cartesian
InternalToCartesian ==
  /\ fpc = "idle"
  /\ reference_triple # <<>>
  /\ LET r == internal_in[1]
         theta == internal_in[2]
         phi == internal_in[3]
         xyz == NumbaInternalToCartesian(reference_triple[1], reference_triple[2],
                                         reference_triple[3], <<r, theta, phi>>)
     IN placed' = <<xyz, DetJOfInternal(r, theta)>>
  /\ fpc' = "placed"
  /\ UNCHANGED <<torsion_energies, logp_torsions, phi_median_idx,
                 torsion_return, phi_idx, torsion_logp, reference_triple,
                 internal_in, internal_out>>
  /\ UNCHANGED <<tpvars, ovars, sysvars, evars>>

\* _cartesian_to_internal on the position just placed
CartesianToInternalOfPlaced ==
  /\ fpc = "placed"
  /\ LET internal_coords ==
           NumbaCartesianToInternal(placed[1], reference_triple[1],
                                    reference_triple[2], reference_triple[3])
     IN internal_out' = <<internal_coords, DetJOfMeasured(internal_coords)>>
  /\ fpc' = "measured"
  /\ UNCHANGED <<torsion_energies, logp_torsions, phi_median_idx,
                 torsion_return, phi_idx, torsion_logp, reference_triple,
                 internal_in, placed>>
  /\ UNCHANGED <<tpvars, ovars, sysvars, evars>>

(***************************************************************************)
(* Specifications                                                          *)
(***************************************************************************)
InitOrderProposal ==
  \E un \in 0 .. MaxNew, uo \in 0 .. MaxNew :
    /\ un + uo <= MaxNew
    /\ new_topology \in NewTopologies(un)
    /\ old_topology \in OldTopologies(uo)
    /\ new_to_old_atom_map = [i \in 0 .. 2 |-> i + uo]

InitEngineProposal ==
  \E un \in 0 .. MaxGrow, uo \in 0 .. MaxGrow :
    /\ un + uo <= MaxGrow
    /\ new_topology \in GrowthTopologies(0, 3, un)
    /\ old_topology \in GrowthTopologies(uo, 0, uo)
    /\ new_to_old_atom_map = [i \in 0 .. 2 |-> i + uo]

InitOrderVars ==
  /\ opc = "idle"
  /\ direction = "forward"
  /\ partition = "heavy"
  /\ new_heavy_atoms = <<>>
  /\ new_hydrogen_atoms = <<>>
  /\ atoms_with_positions = <<>>
  /\ eligible_atoms = <<>>
  /\ atoms_torsions = <<>>
  /\ logp_torsion_choice = 0
  /\ candidates = <<>>
  /\ raised = "none"

InitEngineVars ==
  /\ epc = "idle"
  /\ calls = 0
  /\ nproposed = 0
  /\ propose_calls = 0
  /\ new_positions = <<>>
  /\ logp_proposal = 0
  /\ growth_parameter_value = 0
  /\ reference_system = EmptySystem
  /\ growth_index = 0
  /\ result = [kind |-> "none", status |-> "none", logp |-> 0, positions |-> <<>>]
  /\ processed = <<>>
  /\ first_reverse = {}
  /\ growth_system = EmptyGrowthSystem
  /\ growth_history = <<>>

\* the systems of the proposal, every term present
InitFullSystems ==
  /\ new_system = ForceFieldSystem(new_topology, "harmonic", TRUE)
  /\ old_system = ForceFieldSystem(old_topology, "harmonic", TRUE)

\* the systems of the proposal: the bonds of the last unique atom of a side
\* have harmonic terms, constraints or neither, and its angles have terms
\* or not
InitSystems ==
  \E parameters \in {<<"harmonic", TRUE>>, <<"constraint", TRUE>>,
                      <<"none", TRUE>>, <<"harmonic", FALSE>>} :
    /\ new_system = ForceFieldSystem(new_topology, parameters[1], parameters[2])
    /\ old_system = ForceFieldSystem(old_topology, parameters[1], parameters[2])

\* no function has been called on its own
InitFunctionVars ==
  /\ fpc = "idle"
  /\ torsion_energies = <<>>
  /\ logp_torsions = <<>>
  /\ phi_median_idx = 0
  /\ torsion_return = <<>>
  /\ phi_idx = 0
  /\ torsion_logp = 0
  /\ reference_triple = <<>>
  /\ internal_in = <<>>
  /\ placed = <<>>
  /\ internal_out = <<>>

\* the systems of the proposal, with their torsion terms or without any
InitOrderSystems ==
  \E with_torsions \in BOOLEAN :
    /\ new_system =
         [ForceFieldSystem(new_topology, "harmonic", TRUE)
            EXCEPT !.torsions = IF with_torsions THEN @ ELSE <<>>]
    /\ old_system =
         [ForceFieldSystem(old_topology, "harmonic", TRUE)
            EXCEPT !.torsions = IF with_torsions THEN @ ELSE <<>>]

InitOrder ==
  /\ InitOrderProposal /\ InitOrderVars /\ InitEngineVars /\ InitOrderSystems
  /\ use_sterics = FALSE
  /\ InitFunctionVars

\* the proposal-order resolver called on its own
NextOrder == DetermineProposalOrder \/ WhileTest \/ ForAtom

SpecOrder == InitOrder /\ [][NextOrder]_vars

\* the resolver is sequential code: a call that has begun keeps running, so
\* the loop test and the loop body are weakly fair.  The loop body can take
\* a step exactly when opc = "for"; its weak fairness is written with that
\* condition in the place of ENABLED <<ForAtom>>_vars.
SpecOrderFair ==
  /\ InitOrder
  /\ [][NextOrder]_vars
  /\ WF_vars(WhileTest)
  /\ ([]<>(opc # "for") \/ []<><<ForAtom>>_vars)

Init ==
  /\ InitEngineProposal /\ InitOrderVars /\ InitEngineVars /\ InitSystems
  /\ use_sterics = FALSE
  /\ InitFunctionVars

\* the engine: propose and logp_reverse calls on one topology proposal
Next ==
  \/ ProposeCopy
  \/ ProposeGrow
  \/ LogpReverseZero
  \/ LogpReverseGrow
  \/ WhileTest
  \/ ForAtom
  \/ OrderRaised
  \/ BuildGrowthSystem
  \/ GrowAtom
  \/ FinishCall

Spec == Init /\ [][Next]_vars

InitGrowth ==
  /\ InitEngineProposal /\ InitOrderVars /\ InitEngineVars /\ InitFullSystems
  /\ use_sterics \in BOOLEAN
  /\ InitFunctionVars

\* a generator constructed for a build order and set to growth indices
NextGrowth ==
  \/ ObtainBuildOrder
  \/ WhileTest
  \/ ForAtom
  \/ ConstructGenerator
  \/ SetGrowthParameterIndexCall

SpecGrowth == InitGrowth /\ [][NextGrowth]_vars

\* a topology proposal without unique atoms and an engine at rest
InitAtRest ==
  /\ new_topology \in GrowthTopologies(0, 3, 0)
  /\ old_topology \in GrowthTopologies(0, 0, 0)
  /\ new_to_old_atom_map = [i \in 0 .. 2 |-> i]
  /\ InitOrderVars /\ InitEngineVars /\ InitFullSystems
  /\ use_sterics = FALSE

InitTorsion ==
  /\ InitAtRest
  /\ fpc = "idle"
  /\ torsion_energies \in [1 .. NDivisions -> {"nan", "finite"}]
  /\ logp_torsions = <<>>
  /\ phi_median_idx = 0
  /\ torsion_return = <<>>
  /\ phi_idx = 0
  /\ torsion_logp = 0
  /\ reference_triple = <<>>
  /\ internal_in = <<>>
  /\ placed = <<>>
  /\ internal_out = <<>>

\* a torsion proposed and its log-probability looked up again
NextTorsion == ProposeTorsion \/ TorsionLogpOfProposed

SpecTorsion == InitTorsion /\ [][NextTorsion]_vars

Axes == {<<1, 0, 0>>, <<-1, 0, 0>>, <<0, 1, 0>>, <<0, -1, 0>>,
         <<0, 0, 1>>, <<0, 0, -1>>}

\* reference triples: the angle atom one or two steps from the bond atom
\* along an axis, the torsion atom off that axis
ReferenceTriples ==
  {<<<<0, 0, 0>>, Scale(l, e[1]),
     Add(Scale(l, e[1]), Add(e[2], Scale(m, e[1])))>> :
     l \in 1 .. 2, m \in 0 .. 1,
     e \in {f \in Axes \X Axes : Dot(f[1], f[2]) = 0}}

InitTransform ==
  /\ InitAtRest
  /\ fpc = "idle"
  /\ torsion_energies = <<>>
  /\ logp_torsions = <<>>
  /\ phi_median_idx = 0
  /\ torsion_return = <<>>
  /\ phi_idx = 0
  /\ torsion_logp = 0
  /\ reference_triple \in ReferenceTriples
  /\ internal_in \in {<<25 * k, theta, phi>> :
                         k \in 1 .. MaxR,
                         theta \in {a \in Circle : a[2] > 0},
                         phi \in Circle}
  /\ placed = <<>>
  /\ internal_out = <<>>

NextTransform == InternalToCartesian \/ CartesianToInternalOfPlaced

SpecTransform == InitTransform /\ [][NextTransform]_vars

(***************************************************************************)
(* Properties of the build order                                           *)
(***************************************************************************)
\* the atoms of the build order, in order
OrderAtoms == [i \in 1 .. Len(atoms_torsions) |-> atoms_torsions[i][1]]

PlacedBefore(i) == {atoms_torsions[j][1] : j \in 1 .. (i - 1)}

CallTopology == Topology(direction)

IsHydrogen(a) == CallTopology.atomic_number[a] = 1

UniqueAtoms == Range(CallTopology.unique)

MappedAtoms == Range(CallTopology.mapped)

Bonded(a, b) == {a, b} \in CallTopology.bonds /\ a # b

\* C1: in a build order (forward or reverse, complete or under
\* construction) the three reference atoms of the torsion chosen for an
\* atom are mapped atoms or atoms strictly earlier in the order.
C1_ReferencesPrecede ==
  \A i \in 1 .. Len(atoms_torsions) :
    LET t == atoms_torsions[i][2]
    IN \A k \in 2 .. 4 : t[k] \in MappedAtoms \cup PlacedBefore(i)

\* a returned order of two atoms whose second atom is placed against the first
C1_Witness ==
  /\ opc = "returned"
  /\ Len(atoms_torsions) >= 2
  /\ atoms_torsions[1][1] \in {atoms_torsions[2][2][k] : k \in 2 .. 4}

\* C2: every heavy unique atom comes before every unique hydrogen in the
\* build order, and no hydrogen is in the order while a heavy atom is
\* still to be placed.
C2_HeavyBeforeHydrogen ==
  /\ \A i, j \in 1 .. Len(atoms_torsions) :
       (IsHydrogen(OrderAtoms[i]) /\ ~IsHydrogen(OrderAtoms[j])) => j < i
  /\ (\E i \in 1 .. Len(atoms_torsions) : IsHydrogen(OrderAtoms[i]))
       => new_heavy_atoms = <<>>

\* a returned order with a hydrogen of lower index than a heavy atom
C2_Witness ==
  /\ opc = "returned"
  /\ \E i, j \in 1 .. Len(atoms_torsions) :
       /\ IsHydrogen(OrderAtoms[i]) /\ ~IsHydrogen(OrderAtoms[j])
       /\ OrderAtoms[i] < OrderAtoms[j]

\* no atom still to be placed in the running partition has a bonded
\* neighbour that holds a position
Disconnected ==
  /\ opc = "while"
  /\ NewAtoms # <<>>
  /\ \A a \in Range(NewAtoms) :
       ~ \E b \in Range(atoms_with_positions) : Bonded(a, b)

\* C3: a partition with atoms left of which none has a positioned bonded
\* neighbour makes determine_proposal_order raise, and a returned build
\* order holds every unique atom.
C3_DisconnectedRaises ==
  [][ /\ Disconnected => (opc' = "raised" /\ raised' = "Exception")
      /\ (opc' = "returned") => (Range(OrderAtoms') = UniqueAtoms') ]_vars

\* the call has raised with a unique atom left out of the order
C3_Witness ==
  /\ opc = "raised"
  /\ raised = "Exception"
  /\ UniqueAtoms \ Range(OrderAtoms) # {}

\* atom a has a positioned bonded neighbour but no chain (a, b, c, d) of
\* bonded, pairwise distinct atoms with b, c and d holding positions
NoChain(a) ==
  LET P == Range(atoms_with_positions)
  IN /\ \E b \in P : Bonded(a, b)
     /\ ~ \E b, c, d \in P :
            /\ Bonded(a, b) /\ Bonded(b, c) /\ Bonded(c, d)
            /\ c # a /\ d \notin {a, b, c}

\* C4: an eligible atom without a candidate torsion makes the resolver
\* raise NoTorsionError, which is not the exception of a disconnected
\* addition, and no build order is returned.
C4_NoTorsionRaises ==
  [][ (opc = "for" /\ NoChain(Head(eligible_atoms)))
        => /\ opc' = "raised"
           /\ raised' = "NoTorsionError"
           /\ raised' # "Exception" ]_vars

\* the call has raised NoTorsionError for an atom bonded to a positioned atom
C4_Witness ==
  /\ opc = "raised"
  /\ raised = "NoTorsionError"
  /\ NoChain(Head(eligible_atoms))

(***************************************************************************)
(* Properties of propose and logp_reverse                                  *)
(***************************************************************************)
Returned(kind) ==
  /\ epc = "idle"
  /\ result.kind = kind
  /\ result.status = "returned"

MappedNewAtoms == DOMAIN new_to_old_atom_map

\* positions holds, for every mapped atom of the new topology, the current
\* position of the old atom it is mapped to
MappedCopied(positions) ==
  \A i \in MappedNewAtoms : positions[i] = OldCoordinates[new_to_old_atom_map[i]]

\* C5: with no unique new atoms, propose returns log-probability 0 and the
\* mapped positions copied through the atom map, and it computes no build
\* order and constructs no energy model.
C5_NoOpProposal ==
  [][ (new_topology.unique = <<>> /\ calls' = calls + 1
         /\ result'.kind = "propose")
        => /\ Returned("propose")'
           /\ result'.logp = 0
           /\ MappedCopied(result'.positions)
           /\ UNCHANGED ovars
           /\ UNCHANGED sysvars
           /\ reference_system' = EmptySystem ]_vars

\* propose has returned for a proposal without unique new atoms whose old
\* topology numbers the common atoms differently
C5_Witness ==
  /\ Returned("propose")
  /\ new_topology.unique = <<>>
  /\ \E i \in MappedNewAtoms : new_to_old_atom_map[i] # i

\* C6: with no unique old atoms, logp_reverse returns 0 at once: no build
\* order is computed and no energy model is constructed.
C6_ReverseZero ==
  [][ (old_topology.unique = <<>> /\ calls' = calls + 1
         /\ result'.kind = "logp_reverse")
        => /\ Returned("logp_reverse")'
           /\ result'.logp = 0
           /\ UNCHANGED ovars
           /\ UNCHANGED sysvars
           /\ reference_system' = EmptySystem ]_vars

\* logp_reverse has returned for a proposal without unique old atoms
C6_Witness ==
  /\ Returned("logp_reverse")
  /\ old_topology.unique = <<>>
  /\ new_topology.unique # <<>>

\* C7 as claimed: a logp_reverse call returns the log-probability the first
\* logp_reverse call on the same proposal and coordinates returned.
C7_ReverseRepeatable ==
  (Returned("logp_reverse") /\ old_topology.unique # <<>>)
    => \A f \in first_reverse : result.logp = f.logp

\* C7 as amended: a logp_reverse call goes through the unique old atoms in
\* the order of the first call and adds the same build-order choice
\* log-probability (the torsions drawn, and the total, may differ).
C7_ReverseOrderRepeatable ==
  (Returned("logp_reverse") /\ old_topology.unique # <<>>)
    => \A f \in first_reverse :
         /\ f.order = GrowthIndices
         /\ f.logp_choice = logp_torsion_choice

\* a second logp_reverse has returned a log-probability other than the first
C7_Witness ==
  /\ Returned("logp_reverse")
  /\ calls = 2
  /\ \E f \in first_reverse :
       /\ result.logp # f.logp
       /\ f.order = GrowthIndices

\* C8: propose and logp_reverse leave the systems of the topology proposal
\* as they are.
C8_SystemsUnchanged ==
  [][new_system' = new_system /\ old_system' = old_system]_vars

RECURSIVE SumTerms(_)
SumTerms(h) ==
  IF h = <<>> THEN 0
  ELSE Head(h).logp_r + Head(h).logp_theta + Head(h).logp_phi
         + Head(h).log_detJ + SumTerms(Tail(h))

\* the call that returned went through _logp_propose
GrownCall ==
  \/ Returned("propose") /\ new_topology.unique # <<>>
  \/ Returned("logp_reverse") /\ old_topology.unique # <<>>

\* C9: the log-probability returned through _logp_propose is the build-order
\* choice log-probability plus logp_r + logp_theta + logp_phi + log|detJ|
\* of every atom of the build order, each atom counted once.
C9_LogpIsSum ==
  GrownCall =>
    /\ result.logp = logp_torsion_choice + SumTerms(processed)
    /\ [i \in 1 .. Len(processed) |-> processed[i].atom] = GrowthIndices

\* a call has returned after growing two atoms, with a torsion choice made
\* among several candidates
C9_Witness ==
  /\ GrownCall
  /\ Len(processed) >= 2
  /\ logp_torsion_choice # 0

\* C10: a propose call with unique new atoms returns every mapped atom at
\* the current position of the old atom it is mapped to; while the growth
\* loop runs these slots keep that value.
C10_MappedPositionsKept ==
  /\ (epc = "grow" /\ direction = "forward") => MappedCopied(new_positions)
  /\ (Returned("propose") /\ new_topology.unique # <<>>)
       => MappedCopied(result.positions)

\* propose has returned positions with a grown atom, for a proposal whose
\* old topology numbers the common atoms differently
C10_Witness ==
  /\ Returned("propose")
  /\ new_topology.unique # <<>>
  /\ \E i \in MappedNewAtoms : new_to_old_atom_map[i] # i
  /\ \E a \in Range(new_topology.unique) : result.positions[a] = PlacedPosition(a)

(***************************************************************************)
(* Properties of the growth loop: missing force-field terms                *)
(***************************************************************************)
\* the growth loop is about to process an atom
InLoop == epc = "grow" /\ growth_parameter_value <= Len(atom_proposal_order)

LoopAtom == atom_proposal_order[growth_parameter_value][1]
LoopBondAtom == atom_proposal_order[growth_parameter_value][2][2]
LoopAngleAtom == atom_proposal_order[growth_parameter_value][2][3]

HasBondTerm(system, a, b) ==
  \E i \in 1 .. Len(system.bonds) : Range(system.bonds[i]) = {a, b}

ConstraintLengths(system, a, b) ==
  {c[3] : c \in {d \in Range(system.constraints) : {d[1], d[2]} = {a, b}}}

\* the angle terms of the system as it was when the call began
SharesAngle(a, b, c) ==
  \E i \in 1 .. Len(reference_system.angles) :
     Range(reference_system.angles[i]) = {a, b, c}

\* the step ends the call with an exception and without a return value
StepRaises ==
  /\ epc' = "idle"
  /\ result'.status \in {"Exception", "ValueError"}
  /\ result'.positions = <<>>
  /\ result'.logp = 0

\* the step processed the atom and went on
StepProcessed == epc' = "grow" /\ Len(processed') = Len(processed) + 1

\* C11: in propose, an atom whose bond to its bond-reference atom has no
\* harmonic term gets r equal to the constraint length and a bond
\* log-probability of 0 when a constraint on the two atoms exists, and makes
\* the call raise, returning no positions, when no constraint exists either
C11_ConstraintOrRaise ==
  [][(InLoop /\ direction = "forward"
        /\ ~HasBondTerm(new_system, LoopAtom, LoopBondAtom))
     => LET lengths == ConstraintLengths(new_system, LoopAtom, LoopBondAtom)
        IN IF lengths = {}
           THEN StepRaises /\ result'.status = "ValueError"
           ELSE \/ ~SharesAngle(LoopAtom, LoopBondAtom, LoopAngleAtom) /\ StepRaises
                \/ /\ StepProcessed
                   /\ processed'[Len(processed')].r \in lengths
                   /\ processed'[Len(processed')].logp_r = 0]_vars

\* propose returned positions after an atom was placed at the length of its
\* constraint
C11_Witness ==
  /\ result.kind = "propose" /\ result.status = "returned"
  /\ result.positions # <<>>
  /\ \E i \in 1 .. Len(processed) :
       /\ ~HasBondTerm(new_system, processed[i].atom, processed[i].bond_atom)
       /\ processed[i].r = ConstraintLength
       /\ processed[i].logp_r = 0

\* C12: in logp_reverse, an atom whose bond to its bond-reference atom has
\* neither a harmonic term nor a constraint makes the call raise
C12_ReverseRaises ==
  [][(InLoop /\ direction = "reverse"
        /\ ~HasBondTerm(old_system, LoopAtom, LoopBondAtom)
        /\ ConstraintLengths(old_system, LoopAtom, LoopBondAtom) = {})
     => StepRaises]_vars

\* C13: in propose and in logp_reverse, an atom that shares no angle term
\* with its bond-reference and angle-reference atoms makes the call raise
\* and return nothing
C13_NoAngleRaises ==
  [][(InLoop /\ ~SharesAngle(LoopAtom, LoopBondAtom, LoopAngleAtom))
     => StepRaises]_vars

\* logp_reverse raised at an atom that has its bond term but no angle term
C13_Witness ==
  /\ epc = "idle" /\ result.kind = "logp_reverse"
  /\ result.status = "Exception"
  /\ growth_history # <<>>
  /\ growth_parameter_value \in 1 .. Len(atom_proposal_order)
  /\ HasBondTerm(old_system, LoopAtom, LoopBondAtom)
  /\ ~SharesAngle(LoopAtom, LoopBondAtom, LoopAngleAtom)

(***************************************************************************)
(* Properties of the staged growth system                                  *)
(***************************************************************************)
\* rank of an atom in the build order, 0 for an atom that is not grown
Rank(a) ==
  IF \E i \in 1 .. Len(atoms_torsions) : atoms_torsions[i][1] = a
  THEN CHOOSE i \in 1 .. Len(atoms_torsions) : atoms_torsions[i][1] = a
  ELSE 0

\* growth index of a term: the highest rank among its atoms
TermIndex(atoms) == Max({Rank(atoms[i]) : i \in 1 .. Len(atoms)})

Terms == UNION {{<<f, i>> : i \in 1 .. Len(growth_system[f])} : f \in Forces}

ActiveTerms(system) == {t \in Terms : system[t[1]][t[2]].k # 0}

PreExistingTerms == {t \in Terms : TermIndex(reference_system[t[1]][t[2]]) = 0}

\* C14: after set_growth_parameter_index(g) every bond, angle, torsion,
\* particle and exception term of the growth system has coefficient 0 when
\* its growth index is greater than g and its reference value otherwise,
\* whatever indices were set before
C14_TermsFollowIndex ==
  growth_history # <<>> =>
    \A f \in Forces :
      /\ Len(growth_system[f]) = Len(reference_system[f])
      /\ \A i \in 1 .. Len(reference_system[f]) :
           /\ growth_system[f][i].atoms = reference_system[f][i]
           /\ growth_system[f][i].k =
                IF TermIndex(reference_system[f][i]) > growth_index
                THEN 0 ELSE 1

\* the index was set to 0 twice and then raised past the last of two grown
\* atoms: the terms of the grown atoms, particles and exceptions among
\* them, are back at their reference values
C14_Witness ==
  /\ epc = "generator"
  /\ Len(atoms_torsions) = 2
  /\ growth_history = <<0, 0, 3>>
  /\ Len(growth_system.particles) > 0
  /\ \E t \in Terms :
       /\ TermIndex(reference_system[t[1]][t[2]]) = 2
       /\ growth_system[t[1]][t[2]].k = 1

\* C15: the terms active at growth index g are among those active at g + 1;
\* at g = 0 the active terms are those touching pre-existing atoms only, and
\* these are active at every g
C15_ActivationMonotonic ==
  /\ [](growth_history # <<>> =>
          /\ PreExistingTerms \subseteq ActiveTerms(growth_system)
          /\ growth_index = 0 => ActiveTerms(growth_system) = PreExistingTerms)
  /\ [][(/\ growth_history # <<>>
          /\ Len(growth_history') = Len(growth_history) + 1
          /\ growth_index' = growth_index + 1
          /\ growth_index < Len(atoms_torsions))
         => ActiveTerms(growth_system) \subseteq ActiveTerms(growth_system')]_vars

\* the index went from 0 to 1 with two atoms to grow: some term of a grown
\* atom is active and some term is not
C15_Witness ==
  /\ epc = "generator"
  /\ Len(atoms_torsions) = 2
  /\ Len(growth_history) = 2 /\ growth_index = 1
  /\ ActiveTerms(growth_system) \ PreExistingTerms # {}
  /\ Terms \ ActiveTerms(growth_system) # {}

(***************************************************************************)
(* Properties of the growth system within a call of the engine             *)
(***************************************************************************)
\* C16: when the provider of the reference molecule fails while the
\* auxiliary restraints are synthesized, the construction of the growth
\* system still completes and the call goes on
C16_ProviderFailureNotFatal ==
  [][(epc = "order" /\ opc = "returned")
     => (epc' = "grow" /\ result'.status = "running")]_vars

\* C19: while the k-th atom of the build order has its torsion evaluated,
\* the growth index last applied to the growth system is k
C19_GrowthIndexIsRank ==
  \A k \in 1 .. Len(processed) :
    /\ processed[k].atom = atoms_torsions[k][1]
    /\ processed[k].growth = k

\* the second atom of a build order has been handled
C19_Witness ==
  /\ Len(processed) = 2
  /\ processed[2].growth = 2

\* C20: within a call the growth indices applied to the growth system, from
\* its construction on, never decrease
C20_GrowthIndexMonotonic ==
  \A i \in 1 .. Len(growth_history), j \in 1 .. Len(growth_history) :
    i < j => growth_history[i] <= growth_history[j]

(***************************************************************************)
(* Properties of the torsion sampler                                       *)
(***************************************************************************)
\* C17: every torsion angle _propose_torsion returns lies in [-pi, pi)
C17_TorsionInDomain ==
  fpc = "returned" =>
    /\ -Pi(Len(torsion_energies)) <= torsion_return[1]
    /\ torsion_return[1] < Pi(Len(torsion_energies))

(***************************************************************************)
(* Properties of the coordinate transforms                                 *)
(***************************************************************************)
\* C18: converting (r, theta, phi), theta in (0, pi), to Cartesian and back
\* returns the same (r, theta, phi), and both directions report the same
\* Jacobian magnitude |r^2 sin(theta)|
C18_RoundTrip ==
  fpc = "measured" =>
    /\ internal_out[1] = internal_in
    /\ internal_out[2] = placed[2]
    /\ placed[2] = internal_in[1] * internal_in[1] * internal_in[2][2]

\* a round trip of an atom placed off the plane of its reference atoms, at
\* an angle that is not a right angle
C18_Witness ==
  /\ fpc = "measured"
  /\ internal_in[2][1] # 0
  /\ internal_in[3][2] < 0 /\ internal_in[3][1] > 0
  /\ Dot(Sub(reference_triple[3], reference_triple[2]),
         Sub(reference_triple[2], reference_triple[1])) # 0

(***************************************************************************)
(* Properties of the auxiliary ring-closing restraints                     *)
(***************************************************************************)
\* the system of the side the call grows
CallSystem == IF direction = "forward" THEN new_system ELSE old_system

\* positions, in force f of the system of the call, of the terms added while
\* the growth system of this call was constructed
SynthesizedTerms(f) == (Len(reference_system[f]) + 1) .. Len(CallSystem[f])

\* C21: every ring-closing angle or torsion restraint synthesized while the
\* growth system of a call is constructed is a term of that growth system,
\* with coefficient 0 while the growth index is below the term's own
C21_RestraintsInGrowthSystem ==
  epc = "grow" =>
    \A f \in {"angles", "torsions"} :
      \A i \in SynthesizedTerms(f) :
        /\ i <= Len(growth_system[f])
        /\ growth_system[f][i].atoms = CallSystem[f][i]
        /\ (growth_index < TermIndex(CallSystem[f][i]))
             => growth_system[f][i].k = 0

(***************************************************************************)
(* Properties of the torsion lookup of the reverse direction               *)
(***************************************************************************)
\* C22: for an angle _propose_torsion returned after drawing a bin,
\* _torsion_logp, given the same scan and that angle taken into [-pi, pi),
\* selects the bin drawn and returns the log-density _propose_torsion
\* returned
C22_ReverseSelectsDrawnBin ==
  fpc = "scored" =>
    /\ phi_idx = phi_median_idx
    /\ torsion_logp = torsion_return[2]

(***************************************************************************)
(* Properties of the torsion mass function                                 *)
(***************************************************************************)
\* the bins of the scan whose energy is NaN
NanBins == {i \in 1 .. Len(torsion_energies) : torsion_energies[i] = "nan"}

\* C26: a bin whose energy is NaN has log-probability -inf in the mass
\* function and is never the bin _propose_torsion draws; when every bin is
\* NaN the call raises and returns neither an angle nor a log-probability
C26_NanBinsNeverDrawn ==
  /\ fpc \in {"returned", "scored"} =>
       /\ \A i \in NanBins : logp_torsions[i] = NegInf
       /\ phi_median_idx \notin NanBins
       /\ torsion_return[2] # NegInf - (LogTwoPi + LogInv(Len(torsion_energies)))
  /\ (fpc # "idle" /\ NanBins = 1 .. Len(torsion_energies)) =>
       /\ fpc = "raised"
       /\ torsion_return = <<>>

\* a torsion was drawn from a scan with NaN bins on both sides of the bin
\* drawn
C26_Witness ==
  /\ fpc = "returned"
  /\ phi_median_idx - 1 \in NanBins
  /\ phi_median_idx + 1 \in NanBins

\* the call raised for a scan whose bins are all NaN
C26_AllNanRaised ==
  /\ fpc = "raised"
  /\ NanBins = 1 .. Len(torsion_energies)

(***************************************************************************)
(* Properties of the candidate torsions                                    *)
(***************************************************************************)
\* the chains (A, b, c, d) of bonded atoms with b, c and d in P
Chains(A, P) ==
  {t \in {A} \X P \X P \X P :
     /\ Bonded(t[1], t[2]) /\ Bonded(t[2], t[3]) /\ Bonded(t[3], t[4])
     /\ t[3] # t[1]
     /\ t[4] \notin {t[1], t[2], t[3]}}

\* the unique atoms of the side that hold no position yet
Unplaced == UniqueAtoms \ Range(atoms_with_positions)

\* a torsion term of the system of the side on the four atoms
HasTorsionTerm(t) ==
  \E i \in 1 .. Len(CallSystem.torsions) :
     CallSystem.torsions[i] \in {t, <<t[4], t[3], t[2], t[1]>>}

\* C23: at every point of determine_proposal_order the candidate torsions
\* of an atom A still to be placed are the chains (A, b, c, d) of bonded
\* atoms with b, c, d holding positions, c # A and d none of A, b, c, each
\* chain once, with or without a torsion term of the force field on it
C23_CandidatesAreChains ==
  opc # "idle" =>
    \A A \in Unplaced :
      LET torsions ==
            GetTopologicalTorsions(CallTopology, atoms_with_positions, A)
      IN /\ Range(torsions) = Chains(A, Range(atoms_with_positions))
         /\ Len(torsions) = Cardinality(Chains(A, Range(atoms_with_positions)))

\* an atom is about to be given one of its candidate torsions, chains through
\* two of its bonded neighbours, none of which has a torsion term
C23_Witness ==
  /\ opc = "for"
  /\ LET torsions ==
           GetTopologicalTorsions(CallTopology, atoms_with_positions,
                                  Head(eligible_atoms))
     IN /\ \E i, j \in 1 .. Len(torsions) : torsions[i][2] # torsions[j][2]
        /\ \A i \in 1 .. Len(torsions) : ~HasTorsionTerm(torsions[i])

(***************************************************************************)
(* Properties of the log-probability of the build order                    *)
(***************************************************************************)
\* number of candidate torsions of the i-th atom of the order against the
\* mapped atoms and the atoms before it in the order
CandidateCount(i) ==
  Cardinality(Chains(OrderAtoms[i], MappedAtoms \cup PlacedBefore(i)))

\* sum of -ln(n_A) over the first i atoms of the order
RECURSIVE ChoiceLogp(_)
ChoiceLogp(i) ==
  IF i = 0 THEN 0 ELSE ChoiceLogp(i - 1) + LogInv(CandidateCount(i))

\* C24: the log-probability determine_proposal_order accumulates and returns
\* is the sum over the atoms of the order of -ln(n_A), n_A the number of
\* candidate torsions of A against the mapped atoms and all atoms placed
\* before A, those of the same eligibility round included
C24_LogpIsSumOverChoices ==
  opc # "idle" => logp_torsion_choice = ChoiceLogp(Len(atoms_torsions))

\* an order was returned whose second atom was eligible together with the
\* first and has more candidates with the first atom placed than without it
C24_Witness ==
  /\ opc = "returned"
  /\ Len(atoms_torsions) = 2
  /\ IsHydrogen(OrderAtoms[1]) = IsHydrogen(OrderAtoms[2])
  /\ Cardinality(Chains(OrderAtoms[2], MappedAtoms)) >= 1
  /\ CandidateCount(2) > Cardinality(Chains(OrderAtoms[2], MappedAtoms))

(***************************************************************************)
(* Properties of the growth index of a term                                *)
(***************************************************************************)
\* the sets of one to four particle indices of the side, each as a list
ParticleLists ==
  {SetToSeq(S) : S \in {T \in SUBSET Atoms(CallTopology) :
                          Cardinality(T) \in 1 .. 4}}

\* C25: for any set of particle indices and any build order,
\* _calculate_growth_idx returns the greatest rank in the build order, counted
\* from 1, of the new atoms among the indices, an atom that is not new
\* counting 0: it returns 0 exactly when none of the indices is a new atom
C25_GrowthIdxIsMaxRank ==
  \A p \in ParticleLists :
    LET idx == CalculateGrowthIdx(p, GrowthIndices)
    IN /\ idx = Max({Rank(p[i]) : i \in 1 .. Len(p)})
       /\ (idx = 0) <=> (Range(p) \cap Range(GrowthIndices) = {})

\* a generator was constructed for a build order of two atoms whose second
\* atom has the lower index, and its system holds a term on both atoms and
\* a term on the first atom and pre-existing atoms only
C25_Witness ==
  /\ epc = "generator"
  /\ Len(GrowthIndices) = 2
  /\ GrowthIndices[2] < GrowthIndices[1]
  /\ \E t \in Terms :
       CalculateGrowthIdx(reference_system[t[1]][t[2]], GrowthIndices) = 2
  /\ \E t \in Terms :
       /\ CalculateGrowthIdx(reference_system[t[1]][t[2]], GrowthIndices) = 1
       /\ Len(reference_system[t[1]][t[2]]) >= 3

(***************************************************************************)
(* Properties of the proposal counter                                      *)
(***************************************************************************)
\* C27: between calls nproposed is the number of times propose() has been
\* called on the engine
C27_CountsProposeCalls == epc = "idle" => nproposed = propose_calls

\* no step lowers nproposed, and it never exceeds the number of calls of
\* propose()
C27_NeverDecreases ==
  /\ [](nproposed <= propose_calls)
  /\ [][nproposed' >= nproposed]_vars

(***************************************************************************)
(* Properties of the energies of a torsion scan                            *)
(***************************************************************************)
\* the atoms holding a position while the k-th atom of the order is placed:
\* the pre-existing atoms and the first k atoms of the order
PositionedAt(k) == MappedAtoms \cup {OrderAtoms[j] : j \in 1 .. k}

\* the atoms of term t of the growth system
TermAtoms(t) == Range(growth_system[t[1]][t[2]].atoms)

\* C28: in the growth system the torsion of the k-th atom of the build
\* order is scanned with, every term with a nonzero coefficient touches
\* only pre-existing atoms and the first k atoms of the order
C28_ScanSeesPlacedAtomsOnly ==
  (epc = "grow" /\ processed # <<>>) =>
    \A t \in ActiveTerms(growth_system) :
      TermAtoms(t) \subseteq PositionedAt(Len(processed))

\* propose has placed the first of two atoms: the second still holds its
\* random position, a term on it is switched off and a term on the first
\* atom is on
C28_Witness ==
  /\ epc = "grow" /\ direction = "forward"
  /\ Len(processed) = 1 /\ Len(atom_proposal_order) = 2
  /\ new_positions[OrderAtoms[2]] = RandomPosition
  /\ \E t \in Terms \ ActiveTerms(growth_system) : OrderAtoms[2] \in TermAtoms(t)
  /\ \E t \in ActiveTerms(growth_system) : OrderAtoms[1] \in TermAtoms(t)

(***************************************************************************)
(* Properties of a returned build order                                    *)
(***************************************************************************)
\* C29: a build order determine_proposal_order returned holds every unique
\* atom of the side once and no other atom, every atom of it is atom1 of
\* the torsion recorded for it, and the growth loop never stops at its
\* test that the atom is atom1 of the torsion
C29_OrderIsUniqueAtoms ==
  /\ opc = "returned" =>
       /\ Range(OrderAtoms) = UniqueAtoms
       /\ Len(OrderAtoms) = Cardinality(UniqueAtoms)
       /\ \A i \in 1 .. Len(atoms_torsions) :
            atoms_torsions[i][2][1] = atoms_torsions[i][1]
  /\ (epc = "idle" /\ result.status = "Exception"
        /\ growth_parameter_value \in 1 .. Len(atom_proposal_order))
       => ~SharesAngle(LoopAtom, LoopBondAtom, LoopAngleAtom)

\* the growth loop has handled a build order of two atoms that is not in
\* the order of the atom indices
C29_Witness ==
  /\ opc = "returned"
  /\ Len(processed) = 2
  /\ OrderAtoms[1] > OrderAtoms[2]

(***************************************************************************)
(* Termination of determine_proposal_order                                 *)
(***************************************************************************)
\* the atoms still to be placed, of both lists
ToPlace == Range(new_heavy_atoms) \cup Range(new_hydrogen_atoms)

\* C30: a pass of the while loop of add_atoms raises or enters the for loop
\* with an atom to handle, every pass of the for loop raises or takes an
\* atom out of the atoms to be placed, and a call of
\* determine_proposal_order that has begun returns or raises
C30_Terminates ==
  /\ [][ /\ (opc = "while" /\ NewAtoms # <<>>)
             => \/ opc' = "raised"
                \/ opc' = "for" /\ eligible_atoms' # <<>>
         /\ (opc = "for")
             => \/ opc' = "raised"
                \/ /\ ToPlace' \subseteq ToPlace
                   /\ Cardinality(ToPlace') < Cardinality(ToPlace) ]_vars
  /\ (opc \in {"while", "for"}) ~> (opc \in {"returned", "raised"})

\* an order was returned after two passes of the while loop: its second atom
\* is bonded to no mapped atom
C30_Witness ==
  /\ opc = "returned"
  /\ Len(atoms_torsions) = 2
  /\ IsHydrogen(OrderAtoms[1]) = IsHydrogen(OrderAtoms[2])
  /\ ~ \E b \in MappedAtoms : Bonded(OrderAtoms[2], b)

====
